---- MODULE Spec2Model ----
(***************************************************************************)
(* A model of the gacha simulator: the configuration record (GachaMeta),   *)
(* the probability table built from it (GachaSystem), the three draw       *)
(* generators of GachaSimulator and the loops that consume them.           *)
(*                                                                         *)
(* Probabilities are integers in units of 1/PUnit (1e-4, the precision     *)
(* every table weight is rounded to), so 10000 stands for 1.0.  A draw of  *)
(* random.choices is a nondeterministic choice among the entries it can    *)
(* return for the weight row it is given.                                  *)
(***************************************************************************)
EXTENDS Integers, Sequences, FiniteSets, TLC

(***************************************************************************)
(* Bounds of the model.                                                    *)
(***************************************************************************)
\* largest pity_cnt given to the constructor
MaxPity == 3
\* largest attempt budget given to multi_attempts
MaxAttempts == 3
\* the attempt budget simulate_by_targets gives its generators: 10 ** 8 in the
\* program, cut down to what the model can run
Sentinel == 2
\* the largest count of one item in a Counter handed to counter_contain
MaxCount == 3
\* the largest n_epoch given to estimate_prob_list
MaxEpoch == 2

(***************************************************************************)
(* Values of the program.                                                  *)
(***************************************************************************)
\* round(x, 4): one is 10000 units
PUnit == 10000
\* drop_cols: the columns total_ssr and ssr_n_gacha are not part of a draw
drop_cols == 2
\* Python's None, for the optional numeric arguments
None == -1

Min(a, b) == IF a < b THEN a ELSE b

Max(a, b) == IF a > b THEN a ELSE b

\* math.ceil(a / b) for b > 0
Ceil(a, b) == IF a >= 0 THEN (a + b - 1) \div b ELSE -((-a) \div b)

\* round(num / den, 0) for den > 0, ties to the even neighbour
RoundDiv(num, den) ==
    LET q == num \div den
        r == num % den
    IN  IF 2 * r < den THEN q
        ELSE IF 2 * r > den THEN q + 1
        ELSE IF q % 2 = 0 THEN q ELSE q + 1

RECURSIVE GCD(_, _)
GCD(a, b) == IF b = 0 THEN a ELSE GCD(b, a % b)

\* a fraction <<numerator, denominator>> in lowest terms
Frac(n, d) == LET g == GCD(n, d) IN IF g = 0 THEN <<0, 1>> ELSE <<n \div g, d \div g>>

\* the product of two fractions in lowest terms, cancelled across first
FracMul(x, y) ==
    LET a == Frac(x[1], y[2])
        b == Frac(y[1], x[2])
    IN  <<a[1] * b[1], a[2] * b[2]>>

\* the sum of two fractions, over the least common denominator
FracAdd(x, y) ==
    LET g == GCD(x[2], y[2])
    IN  Frac(x[1] * (y[2] \div g) + y[1] * (x[2] \div g), (x[2] \div g) * y[2])

FracSub(x, y) == FracAdd(x, <<-y[1], y[2]>>)

FracLess(x, y) == x[1] * y[2] < y[1] * x[2]

\* 1 / x for x # 0, the denominator kept positive
FracInv(x) == IF x[1] > 0 THEN <<x[2], x[1]>> ELSE <<-x[2], -x[1]>>

\* x ** k for an int k >= 0
RECURSIVE FracPow(_, _)
FracPow(x, k) == IF k = 0 THEN <<1, 1>> ELSE FracMul(x, FracPow(x, k - 1))

\* sum(i * column[i]) over the rows 1..n
RECURSIVE IndexSum(_, _)
IndexSum(column, n) ==
    IF n = 0 THEN <<0, 1>>
    ELSE FracAdd(IndexSum(column, n - 1), FracMul(<<n, 1>>, column[n]))

(***************************************************************************)
(* GachaMeta and the checks of the constructor.                            *)
(***************************************************************************)
\* GachaMeta.__post_init__ raises: pity_cnt is derived by a division by
\* prob_increase, which may be None or 0
PostInitRaises(a) ==
    a.pity_cnt = None /\ (a.prob_increase = None \/ a.prob_increase = 0)

\* GachaMeta.__post_init__: the derived pity_cnt and the linear prob_list
PostInit(a) ==
    LET pity == IF a.pity_cnt = None
                THEN a.base_cnt + Ceil(PUnit - a.base_prob, a.prob_increase)
                ELSE a.pity_cnt
    IN  [base_prob |-> a.base_prob, base_cnt |-> a.base_cnt,
         up_percent |-> a.up_percent, up_list |-> a.up_list,
         prob_increase |-> a.prob_increase, pity_cnt |-> pity,
         official_prob |-> a.official_prob, major_pity |-> a.major_pity,
         refresh |-> a.refresh,
         prob_list |-> IF a.prob_increase = None THEN <<>>
                       ELSE [i \in 1..pity |->
                               Frac(a.base_prob + Max(0, i - a.base_cnt) * a.prob_increase,
                                    PUnit)]]

\* GachaSimulator._check: "ok", "warn" (returns False) or the error raised
Check(meta) ==
    IF meta.prob_increase = None
    THEN IF meta.official_prob # None /\ meta.official_prob # 0
         THEN "warn" ELSE "missing"
    ELSE IF ~(0 < meta.base_prob /\ meta.base_prob < PUnit) THEN "base_prob"
    ELSE IF ~(0 < meta.up_percent /\ meta.up_percent <= PUnit) THEN "up_percent"
    ELSE IF ~(0 <= meta.prob_increase /\ meta.prob_increase < PUnit) THEN "prob_increase"
    ELSE IF meta.base_cnt > meta.pity_cnt THEN "base_cnt"
    ELSE "ok"

(***************************************************************************)
(* GachaSystem: the probability table.                                     *)
(***************************************************************************)
\* GachaSystem._split_weights: no_ssr, other_ssr, one weight per rate-up
\* item, total_ssr, each rounded to four places
_split_weights(n_up, cur_prob, up_percent) ==
    <<PUnit - cur_prob, RoundDiv(cur_prob * (PUnit - up_percent), PUnit)>>
    \o [k \in 1..n_up |-> RoundDiv(cur_prob * up_percent, n_up * PUnit)]
    \o <<cur_prob>>
\* a probability column without the hard pity: the last row keeps the
\* probability the increase gives it
SsrProbsNoHardPity(meta) ==
    [i \in 1..meta.pity_cnt |->
        meta.base_prob + Max(0, i - meta.base_cnt) * meta.prob_increase]

\* the SSR probability of each attempt of a cycle
SsrProbs(meta) ==
    [i \in 1..meta.pity_cnt |->
        IF meta.refresh /\ i = meta.pity_cnt THEN PUnit
        ELSE meta.base_prob + Max(0, i - meta.base_cnt) * meta.prob_increase]

\* utils.cal_individual_probs: the probabilities of the attempts before
\* pity_cnt, and 1
cal_individual_probs(base_prob, base_cnt, pity_cnt, prob_increase) ==
    [n \in 1..Max(pity_cnt - 1, 0) |->
        base_prob + Max(0, n - base_cnt) * prob_increase] \o <<PUnit>>

\* cum_prob before attempt i: the product of 1 - prob over the attempts before it
RECURSIVE CumProb(_, _)
CumProb(probs, i) ==
    IF i = 1 THEN <<1, 1>>
    ELSE FracMul(CumProb(probs, i - 1), Frac(PUnit - probs[i - 1], PUnit))

\* the column ssr_n_gacha: the first SSR of a cycle comes at attempt i
SsrNGacha(probs) ==
    [i \in 1..Len(probs) |-> FracMul(CumProb(probs, i), Frac(probs[i], PUnit))]

card_pool(meta) == <<"no_ssr", "other_ssr">> \o meta.up_list \o <<"total_ssr">>

\* GachaSystem._gen_prob_table: the regular table and, for major_pity = True,
\* the major pity table (up_percent 1); has_major is FALSE for None
_gen_prob_table(meta) ==
    LET result == SsrProbs(meta)
        n_up == Len(meta.up_list)
        ssr_n_gacha == SsrNGacha(result)
        regular == [i \in 1..Len(result) |->
                      _split_weights(n_up, result[i], meta.up_percent)
                      \o <<ssr_n_gacha[i]>>]
        major == [i \in 1..Len(result) |->
                      _split_weights(n_up, result[i], PUnit)
                      \o <<ssr_n_gacha[i]>>]
        has_major == meta.major_pity.type = "bool" /\ meta.major_pity.val # 0
    IN  [columns |-> card_pool(meta) \o <<"ssr_n_gacha">>,
         regular_table |-> regular,
         has_major |-> has_major,
         major_pity_table |-> IF has_major THEN major ELSE <<>>]

\* GachaSystem._adjust on a meta GachaMeta.__post_init__ has been through:
\* up_list is a list and pity_cnt an int already
_adjust(meta) ==
    [meta EXCEPT !.prob_increase = IF @ = None THEN 0 ELSE @]

\* GachaSystem._cal_refresh_expectation
_cal_refresh_expectation(prob_table) ==
    LET n == Len(prob_table.regular_table)
        width == Len(prob_table.columns)
    IN  IndexSum([i \in 1..n |-> prob_table.regular_table[i][width]], n)

\* utils.combination(n, k): the number of k-subsets of n things
RECURSIVE combination(_, _)
combination(n, k) ==
    IF k = 0 \/ k = n THEN 1 ELSE combination(n - 1, k - 1) + combination(n - 1, k)

\* the sum of the loop of _cal_not_refresh_expectation over i = 0..k
RECURSIVE NotRefreshSum(_, _, _)
NotRefreshSum(ssr, n, k) ==
    LET no_ssr == FracSub(<<1, 1>>, ssr)
        cur == FracMul(<<combination(n, k), 1>>,
                       FracMul(FracPow(no_ssr, n - k), FracPow(ssr, k)))
        term == FracMul(<<Max(k, 1), 1>>, cur)
    IN  IF k = 0 THEN term ELSE FracAdd(NotRefreshSum(ssr, n, k - 1), term)

\* GachaSystem._cal_not_refresh_expectation, for a sum that is not 0
_cal_not_refresh_expectation(meta) ==
    LET n == meta.pity_cnt
        expectation == NotRefreshSum(Frac(meta.base_prob, PUnit), n, n)
    IN  FracMul(<<n, 1>>, FracInv(expectation))

\* GachaSystem._cal_expectation
_cal_expectation(meta, prob_table) ==
    IF meta.refresh THEN _cal_refresh_expectation(prob_table)
    ELSE _cal_not_refresh_expectation(meta)

\* GachaSystem.__init__ raises: an empty table under refresh (result[-1]),
\* or an expectation of 0 (1 / self.expectation)
SystemRaises(meta) ==
    \/ meta.pity_cnt < 1
    \/ ~meta.refresh /\ NotRefreshSum(Frac(meta.base_prob, PUnit), meta.pity_cnt,
                                      meta.pity_cnt)[1] = 0
    \/ _cal_expectation(_adjust(meta), _gen_prob_table(_adjust(meta)))[1] = 0

\* GachaSystem(meta): the adjusted meta, its table, the expectation and the
\* theoretical probability
GachaSystem(meta) ==
    LET m == _adjust(meta)
        t == _gen_prob_table(m)
        e == _cal_expectation(m, t)
    IN  [meta |-> m, prob_table |-> t, expectation |-> e,
         theoretical_prob |-> FracInv(e)]

(***************************************************************************)
(* random.choices and the indexing of a table.                             *)
(***************************************************************************)
\* values[cur_cnt] of a table of n rows: the row read, counted from 1; an
\* index below 0 counts from the last row; 0 stands for IndexError
RowOf(cur_cnt, n) ==
    IF 0 <= cur_cnt /\ cur_cnt < n THEN cur_cnt + 1
    ELSE IF -n <= cur_cnt /\ cur_cnt < 0 THEN n + cur_cnt + 1
    ELSE 0

\* row[:-drop_cols]
DropCols(row) == SubSeq(row, 1, Len(row) - drop_cols)

RECURSIVE Cum(_, _)
Cum(w, k) == IF k = 0 THEN 0 ELSE Cum(w, k - 1) + w[k]

\* choices(population, weights)[0]: the entries a draw can return, by the
\* bisection of random() * total in the cumulative weights; the empty set
\* stands for ValueError (the total of the weights is not above zero)
Choices(population, weights) ==
    LET n == Len(weights)
        total == Cum(weights, n)
        can(j) == LET lo == IF j = 1 THEN 0 ELSE Max(Cum(weights, j - 1), 0)
                      hi == IF j = n THEN total ELSE Min(Cum(weights, j), total)
                  IN  lo < hi
    IN  IF total <= 0 THEN {} ELSE {population[j] : j \in {i \in 1..n : can(i)}}

item_pool(sys) == DropCols(sys.prob_table.columns)

(***************************************************************************)
(* The generators.  A generator is a record: policy, pc ("loop" at the     *)
(* head of the for loop, "yield" suspended at its yield, "done" returned,  *)
(* "closed" by its consumer, "raised"), the budget n_attempts, the number  *)
(* k of iterations begun, and the local variables of the three bodies.     *)
(***************************************************************************)
Generator(policy, pc, n_attempts, cur_cnt, values, maj_cnt) ==
    [policy |-> policy, pc |-> pc, n_attempts |-> n_attempts, k |-> 0,
     cur_cnt |-> cur_cnt, values |-> values, maj_cnt |-> maj_cnt,
     get_ssr |-> FALSE]

\* multi_attempts did not return a generator
NoGenerator == Generator("none", "done", 0, 0, "reg", 0)

\* _multi_attempts_normal, up to the loop
NormalStart(sys, n_attempts, start, major_pity_start) ==
    Generator("normal", "loop", n_attempts, start,
              IF major_pity_start # 0 THEN "maj" ELSE "reg", 0)

\* the table `values` stands for: maj_values is None without a major pity
NormalValues(sys, g) ==
    IF g.values = "maj"
    THEN (IF sys.meta.major_pity.val # 0 THEN sys.prob_table.major_pity_table ELSE <<>>)
    ELSE sys.prob_table.regular_table

\* weight = values[cur_cnt]: the row read (0: the read raises)
NormalRow(sys, g) ==
    IF g.values = "maj" /\ sys.meta.major_pity.val = 0 THEN 0
    ELSE RowOf(g.cur_cnt, Len(NormalValues(sys, g)))

NormalWeight(sys, g) == DropCols(NormalValues(sys, g)[NormalRow(sys, g)])

\* the results one iteration of _multi_attempts_normal can draw
NormalChoices(sys, g) ==
    IF NormalRow(sys, g) = 0 THEN {} ELSE Choices(item_pool(sys), NormalWeight(sys, g))
\* a generator that never changes its table
NormalSwitchNever(sys, g, result) == g.values

\* the table after a recorded result: the major pity system
NormalSwitch(sys, g, result) ==
    IF sys.meta.major_pity.val # 0
    THEN (IF result = "other_ssr" THEN "maj" ELSE "reg")
    ELSE g.values

\* one iteration of _multi_attempts_normal with the result drawn, up to its
\* continue or its yield
NormalDraw(sys, g, result) ==
    LET cnt == g.cur_cnt + 1
    IN  IF result = "no_ssr"
        THEN [g EXCEPT !.k = g.k + 1, !.cur_cnt = cnt]
        ELSE [g EXCEPT !.k = g.k + 1, !.cur_cnt = cnt, !.pc = "yield",
                       !.values = NormalSwitch(sys, g, result)]

\* _multi_attempts_not_refresh, up to the loop
NotRefreshStart(sys, n_attempts, start) ==
    Generator("not_refresh", "loop", n_attempts, start, "reg", 0)

\* weight: the first row of the regular table
NotRefreshWeight(sys) == DropCols(sys.prob_table.regular_table[1])

\* get_ssr after the reset at the first attempt of a cycle
NotRefreshGetSsr(sys, g) ==
    IF (g.k + 1) % sys.meta.pity_cnt = 1 THEN FALSE ELSE g.get_ssr
\* a pity system that counts its cycle back from the end of the budget
NotRefreshPityFromEnd(sys, g) ==
    (g.n_attempts - g.k) % sys.meta.pity_cnt = 0 /\ ~NotRefreshGetSsr(sys, g)

\* a pity system that counts its cycle by cur_cnt, from the start given
NotRefreshPityByCount(sys, g) ==
    (g.cur_cnt + 1) % sys.meta.pity_cnt = 0 /\ ~NotRefreshGetSsr(sys, g)

\* the pity system: the attempt is drawn again without no_ssr
NotRefreshPity(sys, g) ==
    (g.k + 1) % sys.meta.pity_cnt = 0 /\ ~NotRefreshGetSsr(sys, g)

\* the results one iteration of _multi_attempts_not_refresh can end with:
\* empty when one of its draws raises
NotRefreshChoices(sys, g) ==
    LET weight == NotRefreshWeight(sys)
        first == Choices(item_pool(sys), weight)
    IN  IF first = {} THEN {}
        ELSE IF NotRefreshPity(sys, g)
        THEN Choices(item_pool(sys), <<0>> \o Tail(weight))
        ELSE first

\* one iteration of _multi_attempts_not_refresh with its final result
NotRefreshDraw(sys, g, result) ==
    LET cnt == g.cur_cnt + 1
        got == NotRefreshGetSsr(sys, g)
    IN  IF result = "no_ssr"
        THEN [g EXCEPT !.k = g.k + 1, !.cur_cnt = cnt, !.get_ssr = got]
        ELSE [g EXCEPT !.k = g.k + 1, !.cur_cnt = cnt, !.get_ssr = got,
                       !.pc = "yield"]

\* _multi_attempts_specific_major_pity, up to the loop: up_list[0] raises
\* IndexError for an empty up_list
SpecificStart(sys, n_attempts, start, major_pity_start) ==
    Generator("specific",
              IF Len(sys.meta.up_list) = 0 THEN "raised" ELSE "loop",
              n_attempts, start, "reg", major_pity_start)

cur_up(sys) == sys.meta.up_list[1]

SpecificRow(sys, g) == RowOf(g.cur_cnt, Len(sys.prob_table.regular_table))

SpecificWeight(sys, g) == DropCols(sys.prob_table.regular_table[SpecificRow(sys, g)])

\* the results the draw of one iteration can return
SpecificChoices(sys, g) ==
    IF SpecificRow(sys, g) = 0 THEN {} ELSE Choices(item_pool(sys), SpecificWeight(sys, g))
\* a major pity that replaces only an attempt that sampled no rare item
SpecificResultOnMiss(sys, g, sampled) ==
    IF (g.maj_cnt + 1) % sys.meta.major_pity.val = 0 /\ sampled = "no_ssr"
    THEN cur_up(sys) ELSE sampled

\* the specific-attempts major pity system: the result after maj_cnt += 1
SpecificResult(sys, g, sampled) ==
    IF (g.maj_cnt + 1) % sys.meta.major_pity.val = 0 THEN cur_up(sys) ELSE sampled
\* a major pity counter that every recorded rare item resets
SpecificMajCntAnyRare(sys, g, result) == 0

\* maj_cnt at the yield of a recorded result
SpecificMajCnt(sys, g, result) ==
    IF result = cur_up(sys) THEN 0 ELSE g.maj_cnt + 1

\* one iteration of _multi_attempts_specific_major_pity with the result sampled
SpecificDraw(sys, g, sampled) ==
    LET cnt == g.cur_cnt + 1
        result == SpecificResult(sys, g, sampled)
    IN  IF result = "no_ssr"
        THEN [g EXCEPT !.k = g.k + 1, !.cur_cnt = cnt, !.maj_cnt = g.maj_cnt + 1]
        ELSE [g EXCEPT !.k = g.k + 1, !.cur_cnt = cnt, !.pc = "yield",
                       !.maj_cnt = SpecificMajCnt(sys, g, result)]

\* a generator that goes on counting after its yield
AfterYieldKeepsCount(g) ==
    [g EXCEPT !.pc = "loop",
              !.get_ssr = IF g.policy = "not_refresh" THEN TRUE ELSE g.get_ssr]

\* the statements after the yield: refresh (and get_ssr = True)
AfterYield(g) ==
    [g EXCEPT !.pc = "loop", !.cur_cnt = 0,
              !.get_ssr = IF g.policy = "not_refresh" THEN TRUE ELSE g.get_ssr]

\* the policy multi_attempts selects by the types of the meta
Policy(meta) ==
    IF meta.refresh /\ meta.major_pity.type = "bool" THEN "normal"
    ELSE IF ~meta.refresh THEN "not_refresh"
    ELSE IF meta.refresh /\ meta.major_pity.type = "int" THEN "specific"
    ELSE "none"

\* GachaSimulator.multi_attempts: the generator returned, or None
multi_attempts(sys, n_attempts, start, major_pity_start) ==
    CASE Policy(sys.meta) = "normal" ->
            NormalStart(sys, n_attempts, start, major_pity_start)
      [] Policy(sys.meta) = "not_refresh" ->
            NotRefreshStart(sys, n_attempts, start)
      [] Policy(sys.meta) = "specific" ->
            SpecificStart(sys, n_attempts, start, major_pity_start)
      [] OTHER -> NoGenerator

\* the results the next iteration of a generator can draw
DrawChoices(sys, g) ==
    CASE g.policy = "normal" -> NormalChoices(sys, g)
      [] g.policy = "not_refresh" -> NotRefreshChoices(sys, g)
      [] g.policy = "specific" -> SpecificChoices(sys, g)
      [] OTHER -> {}

\* the generator after its next iteration, with the result drawn
DrawStep(sys, g, sampled) ==
    CASE g.policy = "normal" -> NormalDraw(sys, g, sampled)
      [] g.policy = "not_refresh" -> NotRefreshDraw(sys, g, sampled)
      [] g.policy = "specific" -> SpecificDraw(sys, g, sampled)
      [] OTHER -> g

\* the result of an iteration, given what its draw returned
DrawResult(sys, g, sampled) ==
    IF g.policy = "specific" THEN SpecificResult(sys, g, sampled) ELSE sampled

\* the row of the table an iteration reads
DrawRow(sys, g) ==
    CASE g.policy = "normal" -> NormalRow(sys, g)
      [] g.policy = "not_refresh" -> 1
      [] g.policy = "specific" -> SpecificRow(sys, g)
      [] OTHER -> 0

(***************************************************************************)
(* Counters of items.                                                      *)
(***************************************************************************)
\* every SSR item a table of the model can hold
Items == {"other_ssr", "A", "B"}

\* Counter()
EmptyCounter == [x \in Items |-> 0]

\* Counter(targets) of a list of items
CounterOf(list) == [x \in Items |-> Cardinality({j \in 1..Len(list) : list[j] = x})]

\* a union that adds the counts of each item
CounterUnionAdds(counter1, counter2) ==
    [x \in Items |-> counter1[x] + counter2[x]]

\* counter1 | counter2: the larger count of each item
CounterUnion(counter1, counter2) ==
    [x \in Items |-> Max(counter1[x], counter2[x])]

\* utils.counter_contain
counter_contain(counter1, counter2) == CounterUnion(counter1, counter2) = counter1

(***************************************************************************)
(* The arguments the model draws.                                          *)
(***************************************************************************)
BaseProbs == {2000}

BaseCnts == {1}

ProbIncreases == {4000}

PityCnts == {None} \cup 1..MaxPity

UpPercents == {5000, 10000}

UpLists == {<<>>, <<"A">>, <<"A", "B">>}

\* the counts of a specific-attempts major pity
MajorCounts == {1, 2}

\* major_pity: False, True, an int, or a value of another type (None)
MajorPities ==
    {[type |-> "bool", val |-> 0], [type |-> "bool", val |-> 1],
     [type |-> "other", val |-> 0]}
    \cup {[type |-> "int", val |-> n] : n \in MajorCounts}

Args ==
    [base_prob : BaseProbs, base_cnt : BaseCnts, up_percent : UpPercents,
     up_list : UpLists, prob_increase : ProbIncreases, pity_cnt : PityCnts,
     official_prob : {None}, major_pity : MajorPities, refresh : BOOLEAN]

\* GachaSimulator.__init__ builds the gacha system
Builds(a) ==
    /\ ~PostInitRaises(a)
    /\ Check(PostInit(a)) = "ok"
    /\ ~SystemRaises(PostInit(a))

Starts == -1..MaxPity

\* major_pity_start: False or True where a major pity table exists, the
\* attempts already made for a specific-attempts major pity
MajorPityStarts(sys) ==
    CASE Policy(sys.meta) = "normal" ->
            IF sys.meta.major_pity.val # 0 THEN {0, 1} ELSE {0}
      [] Policy(sys.meta) = "specific" -> 0..sys.meta.major_pity.val
      [] OTHER -> {0}

TargetLists == {<<>>, <<"A">>, <<"A", "A">>, <<"A", "B">>}

TotalRounds == {1, 2}

(***************************************************************************)
(* The state.                                                              *)
(***************************************************************************)
VARIABLES
    gacha_system,   \* GachaSimulator.gacha_system
    mode,           \* what runs: "idle", "attempts" (a caller consumes a
                    \* generator of multi_attempts), "targets"
                    \* (simulate_by_targets), "none" (multi_attempts returned
                    \* None), "finished", "raised"
    call,           \* the arguments of the running call
    gen,            \* the generator being consumed
    events,         \* what the generator has yielded: cnt, item, and the
                    \* iteration `at` which it was yielded
    last,           \* the last iteration: row read, result sampled, result
    i,              \* simulate_by_targets: i
    cur,            \* simulate_by_targets: cur_cnt
    seen,           \* simulate_by_targets: events its for loop has taken
    out,            \* simulate_by_targets: what it has yielded, with the
                    \* iterations the round made and the iteration at which
                    \* the yielded items first contained the targets
    twin,           \* a second generator given the same draws (SpecPair)
    _meta           \* GachaSimulator._meta, while the attribute exists

vars == <<gacha_system, mode, call, gen, events, last, i, cur, seen, out, twin,
          _meta>>

\* del self._meta
NoMeta == [deleted |-> TRUE]

NoCall == [op |-> "none", n_attempts |-> 0, start |-> 0, major_pity_start |-> 0,
           targets |-> EmptyCounter, total_round |-> 0, mode |-> "none",
           alternatives |-> <<>>]

NoLast == [row |-> 0, sampled |-> "none", result |-> "none", forced |-> FALSE,
           before |-> NoGenerator]

NoTwin == [gen |-> NoGenerator, events |-> <<>>]

Init ==
    /\ \E a \in Args : Builds(a) /\ gacha_system = GachaSystem(PostInit(a))
    /\ _meta = NoMeta
    /\ mode = "idle"
    /\ call = NoCall
    /\ gen = NoGenerator
    /\ events = <<>>
    /\ last = NoLast
    /\ i = 0
    /\ cur = EmptyCounter
    /\ seen = 0
    /\ out = <<>>
    /\ twin = NoTwin

(***************************************************************************)
(* The steps of a generator.                                               *)
(***************************************************************************)
\* the record of an iteration
LastOf(sys, g, sampled) ==
    [row |-> DrawRow(sys, g), sampled |-> sampled,
     result |-> DrawResult(sys, g, sampled),
     forced |-> (g.policy = "not_refresh" /\ NotRefreshPity(sys, g))
                \/ (g.policy = "specific" /\ DrawResult(sys, g, sampled) # sampled),
     before |-> g]

\* the events after an iteration
EventsAfter(sys, g, ev, sampled) ==
    LET g2 == DrawStep(sys, g, sampled)
    IN  IF g2.pc = "yield"
        THEN Append(ev, [cnt |-> g2.cur_cnt, item |-> DrawResult(sys, g, sampled),
                         at |-> g2.k])
        ELSE ev
\* the callers that consume a generator: a caller of multi_attempts,
\* simulate_by_targets, multi_experiments, simulate_by_attempts
Consuming == {"attempts", "targets", "experiments", "by_attempts"}

\* a loop that makes one iteration more than its budget
CanDrawOneMore(g) == g.pc = "loop" /\ g.k <= g.n_attempts

CanDraw(g) == g.pc = "loop" /\ g.k < g.n_attempts

\* a caller asks multi_attempts for a generator
CallMultiAttempts ==
    /\ mode = "idle"
    /\ \E n \in 0..MaxAttempts, s \in Starts, m \in MajorPityStarts(gacha_system) :
          /\ call' = [NoCall EXCEPT !.op = "multi_attempts", !.n_attempts = n,
                                    !.start = s, !.major_pity_start = m]
          /\ gen' = multi_attempts(gacha_system, n, s, m)
          /\ mode' = IF Policy(gacha_system.meta) = "none" THEN "none" ELSE "attempts"
    /\ UNCHANGED <<gacha_system, _meta, events, last, i, cur, seen, out, twin>>

\* one iteration of the generator's loop, to its continue or its yield
Draw ==
    /\ mode \in Consuming
    /\ CanDraw(gen)
    /\ \E sampled \in DrawChoices(gacha_system, gen) :
          /\ gen' = DrawStep(gacha_system, gen, sampled)
          /\ events' = EventsAfter(gacha_system, gen, events, sampled)
          /\ last' = LastOf(gacha_system, gen, sampled)
    /\ UNCHANGED <<gacha_system, _meta, mode, call, i, cur, seen, out, twin>>

\* the iteration raises: IndexError of the row, ValueError of choices
DrawRaises ==
    /\ mode \in Consuming
    /\ CanDraw(gen)
    /\ DrawChoices(gacha_system, gen) = {}
    /\ gen' = [gen EXCEPT !.pc = "raised"]
    /\ UNCHANGED <<gacha_system, _meta, mode, call, events, last, i, cur, seen, out, twin>>

\* the consumer asks for the next item: the generator goes on after its yield
Resume ==
    /\ mode \in Consuming
    /\ gen.pc = "yield"
    /\ mode = "targets" => seen = Len(events)
    /\ gen' = AfterYield(gen)
    /\ UNCHANGED <<gacha_system, _meta, mode, call, events, last, i, cur, seen, out, twin>>

\* the loop has made its n_attempts iterations: the generator returns
Return ==
    /\ mode \in Consuming
    /\ gen.pc = "loop"
    /\ gen.k >= gen.n_attempts
    /\ gen' = [gen EXCEPT !.pc = "done"]
    /\ UNCHANGED <<gacha_system, _meta, mode, call, events, last, i, cur, seen, out, twin>>

\* the caller stops consuming its generator
Close ==
    /\ mode = "attempts"
    /\ gen.pc = "yield"
    /\ gen' = [gen EXCEPT !.pc = "closed"]
    /\ UNCHANGED <<gacha_system, _meta, mode, call, events, last, i, cur, seen, out, twin>>

(***************************************************************************)
(* simulate_by_targets.                                                    *)
(***************************************************************************)
\* the items yielded by the iterations 1..d
ItemsUpTo(ev, d) ==
    [x \in Items |-> Cardinality({j \in 1..Len(ev) : ev[j].item = x /\ ev[j].at <= d})]

\* the first iteration after which the items yielded contain the targets
\* (0: before any iteration; -1: never in this round)
FirstContained(ev, target_cnt, k) ==
    LET ds == {d \in 0..k : counter_contain(ItemsUpTo(ev, d), target_cnt)}
    IN  IF ds = {} THEN -1 ELSE CHOOSE d \in ds : \A e \in ds : d <= e

\* a round that goes on from the state the generator before it ended in
NextTrialGoesOn(sys, c, g) ==
    [multi_attempts(sys, c.n_attempts, c.start, c.major_pity_start)
        EXCEPT !.cur_cnt = g.cur_cnt, !.values = g.values, !.maj_cnt = g.maj_cnt,
               !.get_ssr = g.get_ssr]

\* the generator of the next round: multi_attempts is called again with the
\* arguments of the caller
NextTrial(sys, c, g) ==
    multi_attempts(sys, c.n_attempts, c.start, c.major_pity_start)

\* a caller asks for the attempts needed for its targets: the first round begins
CallSimulateByTargets ==
    /\ mode = "idle"
    /\ \E t \in TargetLists, s \in Starts, m \in MajorPityStarts(gacha_system),
          r \in TotalRounds :
          /\ call' = [NoCall EXCEPT !.op = "simulate_by_targets", !.start = s,
                                    !.major_pity_start = m, !.n_attempts = Sentinel,
                                    !.targets = CounterOf(t), !.total_round = r]
          /\ gen' = multi_attempts(gacha_system, Sentinel, s, m)
          /\ i' = -s
          /\ mode' = IF Policy(gacha_system.meta) = "none" THEN "raised" ELSE "targets"
    /\ cur' = EmptyCounter
    /\ seen' = 0
    /\ UNCHANGED <<gacha_system, _meta, events, last, out, twin>>

\* the body of the for loop over the generator, for the item just yielded
TargetsTake ==
    /\ mode = "targets"
    /\ gen.pc = "yield"
    /\ seen < Len(events)
    /\ LET ev == events[seen + 1]
           cnt == [cur EXCEPT ![ev.item] = cur[ev.item] + 1]
       IN  /\ i' = i + ev.cnt
           /\ cur' = cnt
           /\ gen' = IF counter_contain(cnt, call.targets)
                     THEN [gen EXCEPT !.pc = "closed"] ELSE gen
    /\ seen' = seen + 1
    /\ UNCHANGED <<gacha_system, _meta, mode, call, events, last, out, twin>>

\* the generator is exhausted or closed: the round yields i, and the next
\* round begins
TargetsYield ==
    /\ mode = "targets"
    /\ gen.pc \in {"done", "closed"}
    /\ out' = Append(out, [i |-> i, draws |-> gen.k,
                           first |-> FirstContained(events, call.targets, gen.k)])
    /\ IF Len(out) + 1 < call.total_round
       THEN /\ gen' = NextTrial(gacha_system, call, gen)
            /\ i' = -call.start
            /\ cur' = EmptyCounter
            /\ seen' = 0
            /\ events' = <<>>
            /\ last' = NoLast
            /\ mode' = mode
       ELSE /\ mode' = "finished"
            /\ UNCHANGED <<gen, i, cur, seen, events, last>>
    /\ UNCHANGED <<gacha_system, _meta, call, twin>>

\* the exception of the generator ends simulate_by_targets
TargetsRaise ==
    /\ mode = "targets"
    /\ gen.pc = "raised"
    /\ mode' = "raised"
    /\ UNCHANGED <<gacha_system, _meta, call, gen, events, last, i, cur, seen, out, twin>>

Next ==
    \/ CallMultiAttempts
    \/ Draw
    \/ DrawRaises
    \/ Resume
    \/ Return
    \/ Close
    \/ CallSimulateByTargets
    \/ TargetsTake
    \/ TargetsYield
    \/ TargetsRaise

Spec == Init /\ [][Next]_vars

(***************************************************************************)
(* The claims.                                                             *)
(***************************************************************************)
meta == gacha_system.meta

Running == mode \in {"attempts", "targets"}

\* an iteration has been made by the generator being consumed
Drawn == Running /\ last.sampled # "none"

\* C1: hard pity under refresh (the normal and the specific-attempts
\* generators): for a start in 0..pity_cnt-1 every iteration reads a row in
\* 1..pity_cnt (the row after cur_cnt, no index wraps or leaves the table),
\* an iteration that reads row pity_cnt never results in no_ssr, and every
\* item is yielded with a count in 1..pity_cnt.
C1_HardPity ==
    (Running /\ gen.policy \in {"normal", "specific"}
             /\ call.start \in 0..(meta.pity_cnt - 1))
    => /\ gen.cur_cnt \in 0..meta.pity_cnt
       /\ CanDraw(gen) => /\ gen.cur_cnt < meta.pity_cnt
                          /\ DrawRow(gacha_system, gen) = gen.cur_cnt + 1
       /\ Drawn => /\ last.row \in 1..meta.pity_cnt
                   /\ last.row = meta.pity_cnt => last.result # "no_ssr"
       /\ \A j \in 1..Len(events) : events[j].cnt \in 1..meta.pity_cnt

\* a cycle run from its first attempt to the last row, where the item comes
C1_Witness ==
    /\ Running /\ gen.policy = "normal" /\ call.start = 0
    /\ meta.pity_cnt >= 2
    /\ Drawn /\ last.row = meta.pity_cnt
    /\ Len(events) = 1 /\ events[1].cnt = meta.pity_cnt

\* C2: the active table of the normal generator.  With major_pity = True the
\* table after a yielded other_ssr is the major pity table and after a
\* yielded rate-up item the regular table; a no_ssr leaves the table as it
\* was; with major_pity = False the table is the regular one throughout.
C2_ActiveTable ==
    (Running /\ gen.policy = "normal")
    => /\ meta.major_pity.val = 0 => gen.values = "reg"
       /\ (Drawn /\ meta.major_pity.val # 0)
          => /\ last.result = "other_ssr" => gen.values = "maj"
             /\ last.result \notin {"other_ssr", "no_ssr"} => gen.values = "reg"
             /\ last.result = "no_ssr" => gen.values = last.before.values

\* the major pity table was switched to by an other_ssr and left by a
\* rate-up item
C2_Witness ==
    /\ Running /\ gen.policy = "normal" /\ meta.major_pity.val # 0
    /\ call.major_pity_start = 0
    /\ Len(events) = 2
    /\ events[1].item = "other_ssr" /\ events[2].item = "A"
    /\ last.before.values = "maj" /\ gen.values = "reg"

\* C3: the not-refresh generator, for a start of 0 or more, yields an item
\* in every cycle of pity_cnt attempts it has completed: for every k with
\* k * pity_cnt iterations made, some item was yielded at an iteration in
\* (k-1)*pity_cnt+1 .. k*pity_cnt.
C3_EveryCycleYields ==
    (Running /\ gen.policy = "not_refresh" /\ call.start >= 0)
    => \A c \in 1..(gen.k \div meta.pity_cnt) :
          \E j \in 1..Len(events) :
             /\ events[j].at > (c - 1) * meta.pity_cnt
             /\ events[j].at <= c * meta.pity_cnt

\* C4: the specific-attempts generator adds one to maj_cnt at every
\* iteration, and when the sum is a multiple of major_pity the result of the
\* iteration is up_list[0] whatever was sampled, and it is yielded.
C4_ForcedTarget ==
    (Drawn /\ gen.policy = "specific")
    => LET n == meta.major_pity.val
           inc == last.before.maj_cnt + 1
       IN  /\ gen.maj_cnt \in {0, inc}
           /\ inc % n = 0
              => /\ last.result = meta.up_list[1]
                 /\ events # <<>>
                 /\ events[Len(events)].item = meta.up_list[1]
                 /\ events[Len(events)].at = gen.k
           /\ inc % n # 0 => last.result = last.sampled

\* the second of two attempts that sampled no rate-up item is forced
C4_Witness ==
    /\ Drawn /\ gen.policy = "specific" /\ meta.major_pity.val = 2
    /\ call.major_pity_start = 0 /\ gen.k = 2
    /\ last.sampled \in {"no_ssr", "other_ssr"}
    /\ last.result = "A"
    /\ Len(events) <= 1 \/ events[1].item # "A"

\* C5: in the specific-attempts generator maj_cnt is 0 after an iteration
\* whose result is up_list[0] and the sum maj_cnt + 1 after any other
\* iteration (no_ssr, other_ssr, another rate-up item); cur_cnt is 0 once
\* the generator goes on after any yielded item, and one more after a no_ssr.
C5_Resets ==
    (Drawn /\ gen.policy = "specific")
    => /\ last.result = meta.up_list[1] <=> gen.maj_cnt = 0
       /\ last.result # meta.up_list[1] => gen.maj_cnt = last.before.maj_cnt + 1
       /\ (last.result # "no_ssr" /\ gen.pc = "loop") => gen.cur_cnt = 0
       /\ last.result = "no_ssr" => gen.cur_cnt = last.before.cur_cnt + 1

\* an SSR item other than up_list[0] was yielded: cur_cnt is reset, maj_cnt
\* is kept
C5_Witness ==
    /\ Drawn /\ gen.policy = "specific" /\ gen.pc = "loop"
    /\ last.result \in {"other_ssr", "B"}
    /\ gen.cur_cnt = 0 /\ gen.maj_cnt >= 1

\* C6: the policy is a function of (refresh, major_pity): the generator a
\* call returns is the one of its pairing, it is the same throughout the run,
\* and a call for a pairing that matches no policy ends in an error.
C6_PolicySelection ==
    /\ Running
       => gen.policy = (IF ~meta.refresh THEN "not_refresh"
                        ELSE IF meta.major_pity.type = "int" THEN "specific"
                        ELSE "normal")
    /\ (meta.refresh /\ meta.major_pity.type \notin {"bool", "int"})
       => mode \in {"idle", "raised"}

\* C7: a start below 0, or at or above pity_cnt under refresh, is rejected:
\* no iteration is made and no item yielded for it.
C7_StartRejected ==
    (mode # "idle"
     /\ (call.start < 0 \/ (meta.refresh /\ call.start >= meta.pity_cnt)))
    => /\ gen.k = 0
       /\ events = <<>>
       /\ last = NoLast

\* C8: a generator makes at most n_attempts iterations, yields at most one
\* item per iteration, none at an iteration beyond the budget, and returns
\* only when it has made exactly n_attempts iterations.
C8_Budget ==
    Running
    => /\ gen.n_attempts = call.n_attempts
       /\ gen.k \in 0..gen.n_attempts
       /\ Len(events) <= gen.k
       /\ \A j \in 1..Len(events) :
             /\ events[j].at \in 1..gen.n_attempts
             /\ j > 1 => events[j - 1].at < events[j].at
       /\ gen.pc = "done" => gen.k = gen.n_attempts

\* a generator that has used its whole budget and returned
C8_Witness ==
    /\ mode = "attempts" /\ gen.pc = "done"
    /\ gen.k = MaxAttempts /\ Len(events) >= 2

\* C10: every round of simulate_by_targets, for a start of 0 or more, yields
\* the number of iterations at which the yielded items first contained the
\* targets, and its generator made no iteration after that one.
C10_AttemptsNeeded ==
    call.start >= 0
    => \A r \in 1..Len(out) :
          out[r].first # -1 => /\ out[r].i = out[r].first
                               /\ out[r].draws = out[r].first

\* the same for targets that name at least one item
C10_NonEmptyTargets ==
    call.targets # EmptyCounter
    => \A r \in 1..Len(out) :
          out[r].first # -1 => /\ out[r].i = out[r].first
                               /\ out[r].draws = out[r].first

C10_Witness ==
    /\ mode = "finished" /\ Len(out) = 2
    /\ call.targets = CounterOf(<<"A", "A">>) /\ call.start = 1
    /\ out[2].i = 2 /\ out[2].first = 2

(***************************************************************************)
(* Two generators of one system, given the same start, the same draws and  *)
(* two budgets: `gen` has the smaller budget and a consumer that may stop  *)
(* at any item, `twin` the larger budget and is consumed to its end.       *)
(***************************************************************************)
PairInit ==
    /\ \E a \in Args :
          /\ Builds(a)
          /\ Policy(PostInit(a)) # "none"
          /\ gacha_system = GachaSystem(PostInit(a))
    /\ _meta = NoMeta
    /\ \E n \in 0..MaxAttempts, n2 \in 0..MaxAttempts, s \in Starts,
          m \in MajorPityStarts(gacha_system) :
          /\ n <= n2
          /\ call = [NoCall EXCEPT !.op = "multi_attempts", !.n_attempts = n,
                                   !.start = s, !.major_pity_start = m]
          /\ gen = multi_attempts(gacha_system, n, s, m)
          /\ twin = [gen |-> multi_attempts(gacha_system, n2, s, m), events |-> <<>>]
    /\ mode = "pair"
    /\ events = <<>>
    /\ last = NoLast
    /\ i = 0
    /\ cur = EmptyCounter
    /\ seen = 0
    /\ out = <<>>

\* both generators make their next iteration; what random.choices returns to
\* the twin it returns to gen, where gen can draw it
PairDraw ==
    /\ mode = "pair"
    /\ CanDraw(twin.gen)
    /\ gen.pc = "loop" => CanDraw(gen)
    /\ \E sampled \in DrawChoices(gacha_system, twin.gen) :
          /\ twin' = [gen |-> DrawStep(gacha_system, twin.gen, sampled),
                      events |-> EventsAfter(gacha_system, twin.gen, twin.events, sampled)]
          /\ IF CanDraw(gen) /\ DrawChoices(gacha_system, gen) # {}
             THEN \E mine \in DrawChoices(gacha_system, gen) :
                     /\ sampled \in DrawChoices(gacha_system, gen) => mine = sampled
                     /\ gen' = DrawStep(gacha_system, gen, mine)
                     /\ events' = EventsAfter(gacha_system, gen, events, mine)
                     /\ last' = LastOf(gacha_system, gen, mine)
             ELSE UNCHANGED <<gen, events, last>>
    /\ UNCHANGED <<gacha_system, _meta, mode, call, i, cur, seen, out>>

\* the iteration raises in the twin, and in gen if it makes it too
PairRaises ==
    /\ mode = "pair"
    /\ CanDraw(twin.gen)
    /\ gen.pc = "loop" => CanDraw(gen)
    /\ DrawChoices(gacha_system, twin.gen) = {}
    /\ twin' = [twin EXCEPT !.gen.pc = "raised"]
    /\ gen' = IF CanDraw(gen) /\ DrawChoices(gacha_system, gen) = {}
              THEN [gen EXCEPT !.pc = "raised"] ELSE gen
    /\ UNCHANGED <<gacha_system, _meta, mode, call, events, last, i, cur, seen, out>>

\* both consumers ask for the next item
PairResume ==
    /\ mode = "pair"
    /\ twin.gen.pc = "yield"
    /\ twin' = [twin EXCEPT !.gen = AfterYield(twin.gen)]
    /\ gen' = IF gen.pc = "yield" THEN AfterYield(gen) ELSE gen
    /\ UNCHANGED <<gacha_system, _meta, mode, call, events, last, i, cur, seen, out>>

\* the consumer of gen stops at the item just yielded
PairClose ==
    /\ mode = "pair"
    /\ gen.pc = "yield"
    /\ gen' = [gen EXCEPT !.pc = "closed"]
    /\ UNCHANGED <<gacha_system, _meta, mode, call, events, last, i, cur, seen, out, twin>>

\* gen has made its n_attempts iterations and returns
PairReturn ==
    /\ mode = "pair"
    /\ gen.pc = "loop"
    /\ ~CanDraw(gen)
    /\ gen' = [gen EXCEPT !.pc = "done"]
    /\ UNCHANGED <<gacha_system, _meta, mode, call, events, last, i, cur, seen, out, twin>>

\* the twin has made its n_attempts iterations and returns
TwinReturn ==
    /\ mode = "pair"
    /\ twin.gen.pc = "loop"
    /\ ~CanDraw(twin.gen)
    /\ gen.pc # "loop"
    /\ twin' = [twin EXCEPT !.gen.pc = "done"]
    /\ UNCHANGED <<gacha_system, _meta, mode, call, gen, events, last, i, cur, seen, out>>

PairNext ==
    \/ PairDraw
    \/ PairRaises
    \/ PairResume
    \/ PairClose
    \/ PairReturn
    \/ TwinReturn

SpecPair == PairInit /\ [][PairNext]_vars

\* C9: the items a generator has yielded when its consumer stops, or when
\* its budget ends, are the first items of the generator with the same
\* start, the same draws and a larger budget; and while both run they are in
\* the same state.
C9_PrefixValid ==
    mode = "pair"
    => /\ Len(events) <= Len(twin.events)
       /\ \A j \in 1..Len(events) : events[j] = twin.events[j]
       /\ gen.pc \in {"loop", "yield"}
          => /\ events = twin.events
             /\ gen = [twin.gen EXCEPT !.n_attempts = gen.n_attempts]

\* the consumer stopped at the first item and the twin went on to yield more
C9_Witness ==
    /\ mode = "pair"
    /\ gen.pc = "closed" /\ Len(events) = 1
    /\ twin.gen.pc = "done" /\ Len(twin.events) = MaxAttempts

(***************************************************************************)
(* utils.counter_contain applied to two Counters over Items.               *)
(***************************************************************************)
\* self.gacha_system = None
NoSystem == [none |-> TRUE]

Counters == [Items -> 0..MaxCount]

ContainInit ==
    /\ gacha_system = NoSystem
    /\ _meta = NoMeta
    /\ mode = "contain"
    /\ \E counter1 \in Counters, counter2 \in Counters :
          /\ cur = counter1
          /\ call = [NoCall EXCEPT !.op = "counter_contain", !.targets = counter2]
    /\ gen = NoGenerator
    /\ events = <<>>
    /\ last = NoLast
    /\ i = 0
    /\ seen = 0
    /\ out = <<>>
    /\ twin = NoTwin

\* counter_contain(cur, targets) returns
ContainReturn ==
    /\ mode = "contain"
    /\ mode' = "contained"
    /\ out' = <<counter_contain(cur, call.targets)>>
    /\ UNCHANGED <<gacha_system, _meta, call, gen, events, last, i, cur, seen, twin>>

ContainNext == ContainReturn

SpecContain == ContainInit /\ [][ContainNext]_vars

\* C11: counter_contain(counter1, counter2) is True exactly when every item
\* counts in counter2 at most what it counts in counter1, an item a Counter
\* does not hold counting 0.
C11_Contain ==
    mode = "contained"
    => out[1] = (\A x \in Items : call.targets[x] <= cur[x])

\* {A: 2} is contained in {A: 3, B: 1}
C11_Witness ==
    /\ mode = "contained"
    /\ cur = [x \in Items |-> IF x = "A" THEN 3 ELSE IF x = "B" THEN 1 ELSE 0]
    /\ call.targets = [x \in Items |-> IF x = "A" THEN 2 ELSE 0]
    /\ out[1] = TRUE

(***************************************************************************)
(* The callers that repeat a run total_round times: multi_experiments,     *)
(* simulate_by_attempts and simulate_by_targets.                           *)
(***************************************************************************)
\* the members of ExperimentMode
ExperimentModes == {"SSR_CNT", "SAMPLE_MEAN", "EMPIRICAL_PROB"}

\* targets given as a list of alternatives, each a list of items
AlternativeLists == {<< <<"A">>, <<"B">> >>, << <<"A", "A">>, <<"A", "B">> >>}

\* the starts and the budgets given to the callers that repeat a run
TrialStarts == {0, 1}

TrialBudgets == 0..(MaxAttempts - 1)

\* a division of two ints: the quotient as a fraction, or the
\* ZeroDivisionError
Divide(a, b) ==
    IF b = 0 THEN [raised |-> TRUE, value |-> <<0, 1>>]
    ELSE [raised |-> FALSE, value |-> Frac(a, b)]

\* regular_methods[mode](attempts, record), by the length of the record
regular_methods(exp_mode, attempts, len) ==
    CASE exp_mode = "SSR_CNT" -> [raised |-> FALSE, value |-> <<len, 1>>]
      [] exp_mode = "SAMPLE_MEAN" -> Divide(attempts, len)
      [] exp_mode = "EMPIRICAL_PROB" -> Divide(len, attempts)

\* a caller asks for total_round experiments: the first one begins
CallMultiExperiments ==
    /\ mode = "idle"
    /\ \E e \in ExperimentModes, n \in TrialBudgets, s \in TrialStarts,
          m \in MajorPityStarts(gacha_system), r \in TotalRounds :
          /\ call' = [NoCall EXCEPT !.op = "multi_experiments", !.mode = e,
                                    !.n_attempts = n, !.start = s,
                                    !.major_pity_start = m, !.total_round = r]
          /\ gen' = multi_attempts(gacha_system, n, s, m)
          /\ mode' = IF Policy(gacha_system.meta) = "none" THEN "raised"
                     ELSE "experiments"
    /\ UNCHANGED <<gacha_system, _meta, events, last, i, cur, seen, out, twin>>

\* a caller asks whether n_attempts attempts achieve its targets: the first
\* round begins
CallSimulateByAttempts ==
    /\ mode = "idle"
    /\ \E t \in TargetLists, n \in TrialBudgets, s \in TrialStarts,
          m \in MajorPityStarts(gacha_system), r \in TotalRounds :
          /\ call' = [NoCall EXCEPT !.op = "simulate_by_attempts",
                                    !.n_attempts = n, !.start = s,
                                    !.major_pity_start = m,
                                    !.targets = CounterOf(t), !.total_round = r]
          /\ gen' = multi_attempts(gacha_system, n, s, m)
          /\ mode' = IF Policy(gacha_system.meta) = "none" THEN "raised"
                     ELSE "by_attempts"
    /\ UNCHANGED <<gacha_system, _meta, events, last, i, cur, seen, out, twin>>

\* a caller gives simulate_by_attempts or simulate_by_targets a list of
\* alternatives: Counter(targets) hashes the elements of the list, and a
\* list, a dict or a Counter is not hashable (TypeError)
CallWithAlternatives ==
    /\ mode = "idle"
    /\ \E t \in AlternativeLists, op \in {"simulate_by_attempts", "simulate_by_targets"},
          n \in 1..MaxAttempts, r \in TotalRounds :
          call' = [NoCall EXCEPT !.op = op, !.n_attempts = n, !.alternatives = t,
                                 !.total_round = r]
    /\ mode' = "raised"
    /\ UNCHANGED <<gacha_system, _meta, gen, events, last, i, cur, seen, out, twin>>

\* the round after the one that appended its result, or the end of the call
TrialAfter(result) ==
    /\ out' = Append(out, result)
    /\ IF Len(out) + 1 < call.total_round
       THEN /\ gen' = NextTrial(gacha_system, call, gen)
            /\ events' = <<>>
            /\ last' = NoLast
            /\ mode' = mode
       ELSE /\ mode' = "finished"
            /\ UNCHANGED <<gen, events, last>>
    /\ UNCHANGED <<gacha_system, _meta, call, i, cur, seen, twin>>

\* list(multi_attempts(...)) is complete: the result of the experiment is
\* appended to rec, or its division raises
ExperimentsAppend ==
    /\ mode = "experiments"
    /\ gen.pc = "done"
    /\ LET res == regular_methods(call.mode, call.n_attempts, Len(events))
       IN  IF res.raised
           THEN /\ mode' = "raised"
                /\ UNCHANGED <<gacha_system, _meta, call, gen, events, last, i, cur,
                               seen, out, twin>>
           ELSE TrialAfter([hits |-> Len(events), value |-> res.value])

\* the generator is exhausted: the round yields whether the items contain
\* the targets
AttemptsYield ==
    /\ mode = "by_attempts"
    /\ gen.pc = "done"
    /\ TrialAfter([achieved |-> counter_contain(ItemsUpTo(events, gen.k), call.targets),
                   draws |-> gen.k])

\* the exception of the generator ends the call
TrialRaises ==
    /\ mode \in {"experiments", "by_attempts"}
    /\ gen.pc = "raised"
    /\ mode' = "raised"
    /\ UNCHANGED <<gacha_system, _meta, call, gen, events, last, i, cur, seen, out, twin>>

TrialsNext ==
    \/ CallMultiExperiments
    \/ CallSimulateByAttempts
    \/ CallSimulateByTargets
    \/ CallWithAlternatives
    \/ Draw
    \/ DrawRaises
    \/ Resume
    \/ Return
    \/ ExperimentsAppend
    \/ AttemptsYield
    \/ TrialRaises
    \/ TargetsTake
    \/ TargetsYield
    \/ TargetsRaise

SpecTrials == Init /\ [][TrialsNext]_vars

\* C12: simulate_by_attempts and simulate_by_targets accept targets given as
\* a list of alternatives: the call runs its rounds, and does not end in an
\* error before any round has counted an alternative as achieved.
C12_Alternatives ==
    call.alternatives # <<>> => mode # "raised"

\* C13: multi_experiments, for a run whose generator does not raise, never
\* ends in an error, and returns total_round results: the number of items
\* under SSR_CNT, n_attempts / that number under SAMPLE_MEAN, that number /
\* n_attempts under EMPIRICAL_PROB.
C13_Results ==
    (call.op = "multi_experiments" /\ gen.policy # "none" /\ gen.pc # "raised")
    => /\ mode # "raised"
       /\ mode = "finished" => Len(out) = call.total_round
       /\ \A r \in 1..Len(out) :
             out[r].value =
                CASE call.mode = "SSR_CNT" -> <<out[r].hits, 1>>
                  [] call.mode = "SAMPLE_MEAN" -> Frac(call.n_attempts, out[r].hits)
                  [] call.mode = "EMPIRICAL_PROB" -> Frac(out[r].hits, call.n_attempts)

\* the runs of multi_experiments and simulate_by_attempts, and of
\* simulate_by_targets
Repeating == mode \in {"experiments", "by_attempts", "targets"}

\* C14: every round of multi_experiments, simulate_by_attempts and
\* simulate_by_targets begins with the generator multi_attempts returns for
\* the start and major_pity_start of the caller and with no item, whatever
\* the round before ended in; and no step changes gacha_system (its meta
\* and its tables).
C14_FreshTrials ==
    /\ [](  (Repeating /\ gen.k = 0 /\ gen.pc = "loop")
            => /\ gen = multi_attempts(gacha_system, call.n_attempts, call.start,
                                       call.major_pity_start)
               /\ events = <<>>
               /\ mode = "targets" => (i = -call.start /\ cur = EmptyCounter /\ seen = 0))
    /\ [][gacha_system' = gacha_system]_vars

\* the second experiment begins at start 1, after a first one that ended
\* with its counter at 0
C14_Witness ==
    /\ mode = "experiments" /\ Len(out) = 1 /\ out[1].hits = 1
    /\ call.n_attempts = 1 /\ call.start = 1
    /\ gen.pc = "loop" /\ gen.k = 0 /\ gen.cur_cnt = 1

(***************************************************************************)
(* The constructor, estimate_prob_list and build_system.                   *)
(***************************************************************************)
\* the arguments given to the constructor
BuildBaseProbs == {0, 2000}

BuildBaseCnts == {1, 2}

BuildUpPercents == {0, 5000, 10000}

BuildProbIncreases == {None, 0, 4000, 5000, 10000}

BuildOfficialProbs == {None, 8621}

BuildPityCnts == {None} \cup 1..(MaxPity + 1)

BuildMajorPities ==
    {[type |-> "bool", val |-> 0], [type |-> "bool", val |-> 1],
     [type |-> "int", val |-> 2]}

BuildArgs ==
    [base_prob : BuildBaseProbs, base_cnt : BuildBaseCnts,
     up_percent : BuildUpPercents, up_list : UpLists,
     prob_increase : BuildProbIncreases, pity_cnt : BuildPityCnts,
     official_prob : BuildOfficialProbs, major_pity : BuildMajorPities,
     refresh : BOOLEAN]

\* the members of ProbIncreaseMode whose function is rational
ProbIncreaseModes == {"ARITHMETIC", "GEOMETRIC"}

\* estimate_init: additive increases below 1, a ratio above 1
EstimateInits(prob_increase_mode) ==
    IF prob_increase_mode = "ARITHMETIC" THEN {<<3, 10>>, <<2, 5>>}
    ELSE {<<2, 1>>}

Steps == {<<1, 10>>}

\* mode_dict[prob_increase_mode](base, cnt, k)
increase_func(prob_increase_mode, base, cnt, k) ==
    IF prob_increase_mode = "ARITHMETIC"
    THEN FracAdd(base, FracMul(<<cnt, 1>>, k))
    ELSE FracMul(base, FracPow(k, cnt))

\* the first loop of estimate_prob_list after i iterations: base_cum_exp
\* and base_cum_prob
RECURSIVE BaseCum(_, _)
BaseCum(base, n) ==
    IF n = 0 THEN [cum_exp |-> <<0, 1>>, cum_prob |-> <<1, 1>>]
    ELSE LET b == BaseCum(base, n - 1)
         IN  [cum_exp |-> FracAdd(b.cum_exp,
                                  FracMul(<<n, 1>>, FracMul(b.cum_prob, base))),
              cum_prob |-> FracMul(b.cum_prob, FracSub(<<1, 1>>, base))]

\* the inner loop of one epoch, from j to pity_cnt
RECURSIVE EpochFrom(_, _, _, _, _)
EpochFrom(m, prob_increase_mode, estimate, j, acc) ==
    IF j > m.pity_cnt THEN acc
    ELSE LET f == increase_func(prob_increase_mode, Frac(m.base_prob, PUnit),
                                j - m.base_cnt, estimate)
             prob == IF FracLess(<<1, 1>>, f) THEN <<1, 1>> ELSE f
         IN  EpochFrom(m, prob_increase_mode, estimate, j + 1,
                [prob_list |-> Append(acc.prob_list, prob),
                 cum_exp |-> FracAdd(acc.cum_exp,
                                FracMul(<<j, 1>>, FracMul(acc.cum_prob, prob))),
                 cum_prob |-> FracMul(acc.cum_prob, FracSub(<<1, 1>>, prob))])

\* one epoch: the probability list of the estimate and its cum_exp
Epoch(m, prob_increase_mode, estimate) ==
    EpochFrom(m, prob_increase_mode, estimate, m.base_cnt + 1,
       [prob_list |-> [k \in 1..m.base_cnt |-> Frac(m.base_prob, PUnit)],
        cum_exp |-> <<0, 1>>,
        cum_prob |-> BaseCum(Frac(m.base_prob, PUnit), m.base_cnt).cum_prob])

\* round(official_prob - 1 / total, 4) in units of 0.0001, for total # 0
Residual(official_prob, total) ==
    LET inv == FracInv(total)
        q == (PUnit * inv[1]) \div inv[2]
        r == (PUnit * inv[1]) % inv[2]
        k == official_prob - q
    IN  IF 2 * r < inv[2] THEN k
        ELSE IF 2 * r > inv[2] THEN k - 1
        ELSE IF k % 2 = 0 THEN k ELSE k - 1

\* diff is None until an epoch has run
NoDiff == [known |-> FALSE, value |-> 0]

\* the epochs of estimate_prob_list that are left, from the estimate, the
\* probability list and the diff reached so far
RECURSIVE Fit(_, _, _, _, _, _, _)
Fit(m, prob_increase_mode, estimate, step, epochs, prob_list, diff) ==
    IF epochs = 0
    THEN [raised |-> FALSE, prob_list |-> prob_list, estimate |-> estimate,
          diff |-> diff, epochs |-> 0]
    ELSE LET e == Epoch(m, prob_increase_mode, estimate)
             total == FracAdd(BaseCum(Frac(m.base_prob, PUnit), m.base_cnt).cum_exp,
                              e.cum_exp)
             d == Residual(m.official_prob, total)
         IN  IF total[1] = 0
             THEN [raised |-> TRUE, prob_list |-> prob_list, estimate |-> estimate,
                   diff |-> diff, epochs |-> epochs]
             ELSE IF d > 0
             THEN Fit(m, prob_increase_mode, FracAdd(estimate, step), step,
                      epochs - 1, e.prob_list, [known |-> TRUE, value |-> d])
             ELSE IF d < 0
             THEN Fit(m, prob_increase_mode, FracSub(estimate, step), step,
                      epochs - 1, e.prob_list, [known |-> TRUE, value |-> d])
             ELSE [raised |-> FALSE, prob_list |-> e.prob_list,
                   estimate |-> estimate, diff |-> [known |-> TRUE, value |-> 0],
                   epochs |-> epochs - 1]

\* GachaSimulator.estimate_prob_list: the list it stores in meta.prob_list,
\* the estimate and the diff it returns, and the epochs it did not run
estimate_prob_list(m, prob_increase_mode, estimate_init, step, n_epoch) ==
    Fit(m, prob_increase_mode, estimate_init, step, n_epoch,
        [k \in 1..m.base_cnt |-> Frac(m.base_prob, PUnit)], NoDiff)

BuildInit ==
    /\ gacha_system = NoSystem
    /\ _meta = NoMeta
    /\ mode = "new"
    /\ call = NoCall
    /\ gen = NoGenerator
    /\ events = <<>>
    /\ last = NoLast
    /\ i = 0
    /\ cur = EmptyCounter
    /\ seen = 0
    /\ out = <<>>
    /\ twin = NoTwin

\* GachaSimulator(...): GachaMeta.__post_init__, _check, and GachaSystem
\* where _check returns True.  out logs what the constructor reports
Construct ==
    /\ mode = "new"
    /\ \E a \in BuildArgs :
          /\ call' = [op |-> "__init__", args |-> a]
          /\ IF PostInitRaises(a)
             THEN /\ mode' = "raised"
                  /\ out' = <<IF a.prob_increase = None THEN "TypeError"
                              ELSE "ZeroDivisionError">>
                  /\ UNCHANGED <<gacha_system, _meta>>
             ELSE LET m == PostInit(a)
                      c == Check(m)
                  IN  CASE c = "ok" /\ ~SystemRaises(m) ->
                              /\ gacha_system' = GachaSystem(m)
                              /\ _meta' = NoMeta
                              /\ mode' = "built"
                              /\ out' = <<>>
                        [] c = "ok" /\ SystemRaises(m) ->
                              /\ mode' = "raised"
                              /\ out' = <<"GachaSystem">>
                              /\ _meta' = m
                              /\ UNCHANGED gacha_system
                        [] c = "warn" ->
                              /\ mode' = "unbuilt"
                              /\ out' = <<"warn">>
                              /\ _meta' = m
                              /\ UNCHANGED gacha_system
                        [] OTHER ->
                              /\ mode' = "raised"
                              /\ out' = <<c>>
                              /\ UNCHANGED <<gacha_system, _meta>>
    /\ UNCHANGED <<gen, events, last, i, cur, seen, twin>>

\* estimate_prob_list(...) on a simulator that has kept its _meta: last
\* keeps what the call was given and what it returned.  The call reads
\* base_prob, base_cnt, pity_cnt and official_prob only and starts from an
\* empty list, so a later call does what a first call with its arguments
\* does: one call per simulator is followed
CallEstimateProbList ==
    /\ mode = "unbuilt"
    /\ last = NoLast
    /\ \E pm \in ProbIncreaseModes, st \in Steps,
          n \in 0..MaxEpoch :
       \E e0 \in EstimateInits(pm) :
          LET r == estimate_prob_list(_meta, pm, e0, st, n)
          IN  IF r.raised
              THEN /\ mode' = "raised"
                   /\ out' = Append(out, "ZeroDivisionError")
                   /\ UNCHANGED <<_meta, last>>
              ELSE /\ _meta' = [_meta EXCEPT !.prob_list = r.prob_list]
                   /\ last' = [prob_increase_mode |-> pm, estimate_init |-> e0,
                               step |-> st, n_epoch |-> n, estimate |-> r.estimate,
                               diff |-> r.diff, epochs |-> n - r.epochs]
                   /\ UNCHANGED <<mode, out>>
    /\ UNCHANGED <<gacha_system, call, gen, events, i, cur, seen, twin>>

\* build_system() on a simulator without a gacha system
CallBuildSystem ==
    /\ mode = "unbuilt"
    /\ IF SystemRaises(_meta)
       THEN /\ mode' = "raised"
            /\ out' = Append(out, "GachaSystem")
            /\ UNCHANGED <<gacha_system, _meta>>
       ELSE /\ gacha_system' = GachaSystem(_meta)
            /\ _meta' = NoMeta
            /\ mode' = "built"
            /\ UNCHANGED out
    /\ UNCHANGED <<call, gen, events, last, i, cur, seen, twin>>

BuildNext ==
    \/ Construct
    \/ CallEstimateProbList
    \/ CallBuildSystem

SpecBuild == BuildInit /\ [][BuildNext]_vars

(***************************************************************************)
(* Claims about the constructor and the tables, checked under SpecBuild.   *)
(***************************************************************************)
\* the first validation rule a configuration violates, in the order the
\* rules are stated, "ok" when it violates none
FirstViolated(a) ==
    IF a.prob_increase = None /\ a.official_prob = None THEN "missing"
    ELSE IF ~(0 < a.base_prob /\ a.base_prob < PUnit) THEN "base_prob"
    ELSE IF ~(0 < a.up_percent /\ a.up_percent <= PUnit) THEN "up_percent"
    ELSE IF a.prob_increase # None
            /\ ~(0 <= a.prob_increase /\ a.prob_increase < PUnit)
    THEN "prob_increase"
    ELSE IF a.pity_cnt # None /\ a.base_cnt > a.pity_cnt THEN "base_cnt"
    ELSE "ok"

\* C15: construction reports the first validation rule the configuration
\* violates, in the stated order, whether or not pity_cnt is given and
\* whichever of prob_increase and official_prob gives the rate, and no gacha
\* system is built, by the constructor or by build_system, from a
\* configuration that violates a rule
C15_FirstRule ==
    call.op = "__init__" =>
       /\ FirstViolated(call.args) # "ok"
             => mode = "raised" /\ out = <<FirstViolated(call.args)>>
       /\ gacha_system # NoSystem => FirstViolated(call.args) = "ok"

\* the rate of the configuration comes from official_prob
Fitted == call.op = "__init__" /\ call.args.prob_increase = None
          /\ call.args.official_prob # None

\* estimate_prob_list has run and has ended on a residual of zero
GoodFit == last # NoLast /\ last.diff.known /\ last.diff.value = 0

\* C16: with prob_increase absent and official_prob given there is no gacha
\* system after construction, and build_system builds none while the fit
\* has not run or has ended on a non-zero residual: the program has no step
\* by which the caller accepts such a fit or supplies a ramp, so a system
\* exists only after a fit with residual zero
C16_NoSilentBuild ==
    Fitted => /\ mode # "built" => gacha_system = NoSystem
              /\ gacha_system # NoSystem => GoodFit

\* a system the constructor has built: the configuration has passed _check
Validated == call.op = "__init__" /\ call.args.prob_increase # None
             /\ mode = "built"

RegularTable == gacha_system.prob_table.regular_table

MajorPityTable == gacha_system.prob_table.major_pity_table

Rows == 1..Len(RegularTable)

NUp == Len(gacha_system.meta.up_list)

\* the columns of a table row: no_ssr, other_ssr, one per rate-up item,
\* total_ssr, ssr_n_gacha
Idle(row) == row[1]

OtherRare(row) == row[2]

RECURSIVE UpSlots(_, _)
UpSlots(row, n) == IF n = 0 THEN 0 ELSE UpSlots(row, n - 1) + row[2 + n]

TotalRare(row) == row[Len(row) - 1]

FirstSuccess(row) == row[Len(row)]

\* C17: for every validated configuration the ramp, the rare probability
\* of the rows 1..pity_cnt, is non-decreasing, and under refresh its last
\* entry is exactly 1, so that the last row has idle = 0
C17_Ramp ==
    Validated =>
       /\ \A r \in Rows \ {1} :
             TotalRare(RegularTable[r - 1]) <= TotalRare(RegularTable[r])
       /\ gacha_system.meta.refresh
             => /\ TotalRare(RegularTable[Len(RegularTable)]) = PUnit
                /\ Idle(RegularTable[Len(RegularTable)]) = 0

\* |x - y| <= 1e-3
Within(x, y) == x - y <= PUnit \div 1000 /\ y - x <= PUnit \div 1000

\* every row of a table sums to 1, has no negative weight, and has
\* total_rare = other_rare + the rate-up slots
RowsSum(table) ==
    \A r \in 1..Len(table) :
       LET row == table[r]
       IN  /\ Within(Idle(row) + OtherRare(row) + UpSlots(row, NUp), PUnit)
           /\ \A c \in 1..(Len(row) - 1) : row[c] >= 0
           /\ Within(TotalRare(row), OtherRare(row) + UpSlots(row, NUp))

\* C18: for every validated configuration, in every row 1..pity_cnt of the
\* regular table and of the major-pity table, idle + other_rare + the
\* rate-up slots is 1 within 1e-3, every weight is >= 0, and total_rare is
\* other_rare + the rate-up slots within 1e-3
C18_RowSums ==
    Validated =>
       /\ RowsSum(RegularTable)
       /\ gacha_system.prob_table.has_major => RowsSum(MajorPityTable)

\* the major pity of the configuration is the full reroll: the bool True
FullReroll == call.args.major_pity = [type |-> "bool", val |-> 1]

\* C19: a major-pity table is built if and only if the major pity is
\* FullReroll, never for Off or FixedCount(n); when built it has the rows
\* of the regular table with the same idle and total_rare, other_rare = 0
\* in every row, and the whole rare mass split evenly over the rate-up
\* targets
C19_MajorTable ==
    Validated =>
       /\ MajorPityTable # <<>> <=> FullReroll
       /\ MajorPityTable # <<>> =>
             /\ Len(MajorPityTable) = Len(RegularTable)
             /\ \A r \in Rows :
                   LET row == MajorPityTable[r]
                   IN  /\ Idle(row) = Idle(RegularTable[r])
                       /\ TotalRare(row) = TotalRare(RegularTable[r])
                       /\ OtherRare(row) = 0
                       /\ \A k \in 1..NUp : row[2 + k] = row[3]
                       /\ Within(UpSlots(row, NUp), TotalRare(row))

\* the sum of the first n entries of a column of fractions
RECURSIVE ColumnSum(_, _)
ColumnSum(column, n) ==
    IF n = 0 THEN <<0, 1>> ELSE FracAdd(ColumnSum(column, n - 1), column[n])

\* the ramp of the regular table and its first-success column
Ramp == [r \in Rows |-> TotalRare(RegularTable[r])]

FirstSuccesses == [r \in Rows |-> FirstSuccess(RegularTable[r])]

\* C20: on the refresh path the first-success probabilities
\* P(i) = p(i) * prod_{j<i} (1 - p(j)), i in 1..pity_cnt, are each in [0,1]
\* and sum to 1, the expectation is sum_i i * P(i) and lies between 1 and
\* pity_cnt, and the theoretical draw rate is 1 / expectation
C20_FirstSuccess ==
    (Validated /\ gacha_system.meta.refresh) =>
       /\ \A r \in Rows :
             /\ FirstSuccesses[r] = FracMul(CumProb(Ramp, r), Frac(Ramp[r], PUnit))
             /\ 0 <= FirstSuccesses[r][1]
             /\ FirstSuccesses[r][1] <= FirstSuccesses[r][2]
       /\ ColumnSum(FirstSuccesses, Len(RegularTable)) = <<1, 1>>
       /\ gacha_system.expectation = IndexSum(FirstSuccesses, Len(RegularTable))
       /\ ~FracLess(gacha_system.expectation, <<1, 1>>)
       /\ ~FracLess(<<gacha_system.meta.pity_cnt, 1>>, gacha_system.expectation)
       /\ FracMul(gacha_system.theoretical_prob, gacha_system.expectation) = <<1, 1>>

RECURSIVE SumCnt(_, _)
SumCnt(ev, n) == IF n = 0 THEN 0 ELSE SumCnt(ev, n - 1) + ev[n].cnt

BothInit ==
    /\ \E a \in Args :
          /\ Builds(a)
          /\ Policy(PostInit(a)) # "none"
          /\ gacha_system = GachaSystem(PostInit(a))
    /\ _meta = NoMeta
    /\ \E t \in TargetLists, n \in 0..Sentinel, s \in Starts,
          m \in MajorPityStarts(gacha_system) :
          /\ call = [NoCall EXCEPT !.op = "both", !.n_attempts = n, !.start = s,
                                   !.major_pity_start = m, !.targets = CounterOf(t)]
          /\ gen = multi_attempts(gacha_system, Sentinel, s, m)
          /\ twin = [gen |-> multi_attempts(gacha_system, n, s, m), events |-> <<>>]
          /\ i = -s
    /\ mode = "both"
    /\ events = <<>>
    /\ last = NoLast
    /\ cur = EmptyCounter
    /\ seen = 0
    /\ out = <<>>

\* a generator that is neither suspended at a yield nor due to return
Ready(g) == g.pc = "loop" => CanDraw(g)

\* the generators that run make their next iteration; random.choices
\* returns to both what it returns to gen, where the twin can draw it
BothDraw ==
    /\ mode = "both"
    /\ gen.pc # "yield" /\ twin.gen.pc # "yield"
    /\ Ready(gen) /\ Ready(twin.gen)
    /\ CanDraw(gen) \/ CanDraw(twin.gen)
    /\ CanDraw(gen) => DrawChoices(gacha_system, gen) # {}
    /\ CanDraw(twin.gen) => DrawChoices(gacha_system, twin.gen) # {}
    /\ \E sampled \in DrawChoices(gacha_system, IF CanDraw(gen) THEN gen ELSE twin.gen) :
          /\ IF CanDraw(gen)
             THEN /\ gen' = DrawStep(gacha_system, gen, sampled)
                  /\ events' = EventsAfter(gacha_system, gen, events, sampled)
                  /\ last' = LastOf(gacha_system, gen, sampled)
             ELSE UNCHANGED <<gen, events, last>>
          /\ IF CanDraw(twin.gen)
             THEN \E other \in DrawChoices(gacha_system, twin.gen) :
                     /\ sampled \in DrawChoices(gacha_system, twin.gen) => other = sampled
                     /\ twin' = [gen |-> DrawStep(gacha_system, twin.gen, other),
                                 events |-> EventsAfter(gacha_system, twin.gen,
                                                        twin.events, other)]
             ELSE UNCHANGED twin
    /\ UNCHANGED <<gacha_system, _meta, mode, call, i, cur, seen, out>>

\* the iteration raises in a generator that makes it
BothRaises ==
    /\ mode = "both"
    /\ gen.pc # "yield" /\ twin.gen.pc # "yield"
    /\ Ready(gen) /\ Ready(twin.gen)
    /\ \/ CanDraw(gen) /\ DrawChoices(gacha_system, gen) = {}
       \/ CanDraw(twin.gen) /\ DrawChoices(gacha_system, twin.gen) = {}
    /\ gen' = IF CanDraw(gen) /\ DrawChoices(gacha_system, gen) = {}
              THEN [gen EXCEPT !.pc = "raised"] ELSE gen
    /\ twin' = IF CanDraw(twin.gen) /\ DrawChoices(gacha_system, twin.gen) = {}
               THEN [twin EXCEPT !.gen.pc = "raised"] ELSE twin
    /\ mode' = "raised"
    /\ UNCHANGED <<gacha_system, _meta, call, events, last, i, cur, seen, out>>

\* the consumers take the item yielded: the list comprehension of
\* simulate_by_attempts asks for the next, the for loop of
\* simulate_by_targets adds the count and the item and closes its generator
\* when the targets are contained
BothTake ==
    /\ mode = "both"
    /\ gen.pc = "yield" \/ twin.gen.pc = "yield"
    /\ IF gen.pc = "yield"
       THEN LET ev == events[Len(events)]
                cnt == [cur EXCEPT ![ev.item] = cur[ev.item] + 1]
            IN  /\ i' = i + ev.cnt
                /\ cur' = cnt
                /\ seen' = seen + 1
                /\ gen' = IF counter_contain(cnt, call.targets)
                          THEN [gen EXCEPT !.pc = "closed"] ELSE AfterYield(gen)
       ELSE UNCHANGED <<gen, i, cur, seen>>
    /\ twin' = IF twin.gen.pc = "yield"
               THEN [twin EXCEPT !.gen = AfterYield(twin.gen)] ELSE twin
    /\ UNCHANGED <<gacha_system, _meta, mode, call, events, last, out>>

\* a generator has made its n_attempts iterations and returns
BothReturn ==
    /\ mode = "both"
    /\ ~Ready(gen) \/ ~Ready(twin.gen)
    /\ gen' = IF Ready(gen) THEN gen ELSE [gen EXCEPT !.pc = "done"]
    /\ twin' = IF Ready(twin.gen) THEN twin ELSE [twin EXCEPT !.gen.pc = "done"]
    /\ UNCHANGED <<gacha_system, _meta, mode, call, events, last, i, cur, seen, out>>

\* both rounds yield: counter_contain(rec_cnt, target_cnt), and i
BothYield ==
    /\ mode = "both"
    /\ gen.pc \in {"done", "closed"}
    /\ twin.gen.pc = "done"
    /\ out' = <<[achieved |-> counter_contain(ItemsUpTo(twin.events, twin.gen.k),
                                              call.targets),
                 i |-> i]>>
    /\ mode' = "finished"
    /\ UNCHANGED <<gacha_system, _meta, call, gen, events, last, i, cur, seen, twin>>

BothNext ==
    \/ BothDraw
    \/ BothRaises
    \/ BothTake
    \/ BothReturn
    \/ BothYield

SpecBoth == BothInit /\ [][BothNext]_vars

\* C23: the two statistics agree on the same samples.  For every target
\* multiset, start and budget n, simulate_by_attempts with budget n yields
\* True exactly when simulate_by_targets yields a count of n or less.  The
\* rounds compared are those simulate_by_targets ends by closing its
\* generator: Sentinel stands for a budget no round runs out of
C23_Agree ==
    (call.op = "both" /\ mode = "finished" /\ gen.pc = "closed")
    => (out[1].achieved <=> out[1].i <= call.n_attempts)

(***************************************************************************)
(* Two not-refresh generators of one system, given the same budget, the    *)
(* same draws and two starts: `gen` starts at call.start, `twin` at        *)
(* twin.start.                                                             *)
(***************************************************************************)
StartsInit ==
    /\ \E a \in Args :
          /\ Builds(a)
          /\ Policy(PostInit(a)) = "not_refresh"
          /\ gacha_system = GachaSystem(PostInit(a))
    /\ _meta = NoMeta
    /\ \E n \in 0..MaxAttempts, s \in Starts, s2 \in Starts :
          /\ call = [NoCall EXCEPT !.op = "starts", !.n_attempts = n, !.start = s]
          /\ gen = multi_attempts(gacha_system, n, s, 0)
          /\ twin = [gen |-> multi_attempts(gacha_system, n, s2, 0),
                     events |-> <<>>, start |-> s2]
    /\ mode = "pair"
    /\ events = <<>>
    /\ last = NoLast
    /\ i = 0
    /\ cur = EmptyCounter
    /\ seen = 0
    /\ out = <<>>

\* both generators make their next iteration; what random.choices returns
\* to gen it returns to the twin, where the twin can draw it
StartsDraw ==
    /\ mode = "pair"
    /\ CanDraw(gen) /\ CanDraw(twin.gen)
    /\ \E sampled \in DrawChoices(gacha_system, gen) :
       \E other \in DrawChoices(gacha_system, twin.gen) :
          /\ sampled \in DrawChoices(gacha_system, twin.gen) => other = sampled
          /\ gen' = DrawStep(gacha_system, gen, sampled)
          /\ events' = EventsAfter(gacha_system, gen, events, sampled)
          /\ last' = LastOf(gacha_system, gen, sampled)
          /\ twin' = [twin EXCEPT !.gen = DrawStep(gacha_system, twin.gen, other),
                                  !.events = EventsAfter(gacha_system, twin.gen,
                                                         twin.events, other)]
    /\ UNCHANGED <<gacha_system, _meta, mode, call, i, cur, seen, out>>

\* the consumers ask for the next item
StartsResume ==
    /\ mode = "pair"
    /\ gen.pc = "yield" \/ twin.gen.pc = "yield"
    /\ gen' = IF gen.pc = "yield" THEN AfterYield(gen) ELSE gen
    /\ twin' = IF twin.gen.pc = "yield"
               THEN [twin EXCEPT !.gen = AfterYield(twin.gen)] ELSE twin
    /\ UNCHANGED <<gacha_system, _meta, mode, call, events, last, i, cur, seen, out>>

\* the generators have made their n_attempts iterations and return
StartsReturn ==
    /\ mode = "pair"
    /\ gen.pc = "loop" /\ twin.gen.pc = "loop"
    /\ ~CanDraw(gen) /\ ~CanDraw(twin.gen)
    /\ gen' = [gen EXCEPT !.pc = "done"]
    /\ twin' = [twin EXCEPT !.gen.pc = "done"]
    /\ UNCHANGED <<gacha_system, _meta, mode, call, events, last, i, cur, seen, out>>

StartsNext ==
    \/ StartsDraw
    \/ StartsResume
    \/ StartsReturn

SpecStarts == StartsInit /\ [][StartsNext]_vars

\* C24: the not-refresh generator reads the first row of the regular table
\* at every iteration, and its start changes only the count of the first
\* item it yields: given the same draws, two runs with two starts yield at
\* the same iterations, natural or forced, the same items, with the same
\* counts from the second item on, and first counts that differ as the
\* starts do
C24_StartOnlyFirstCount ==
    call.op = "starts"
    => /\ last # NoLast => last.row = 1
       /\ gen.pc = twin.gen.pc
       /\ Len(events) = Len(twin.events)
       /\ \A j \in 1..Len(events) :
             /\ events[j].item = twin.events[j].item
             /\ events[j].at = twin.events[j].at
             /\ j > 1 => events[j].cnt = twin.events[j].cnt
             /\ j = 1 => events[j].cnt - call.start
                            = twin.events[j].cnt - twin.start

\* two runs from two starts: the first item at the pity attempt of the
\* first cycle, with two counts, the second at the next attempt, with one
C24_Witness ==
    /\ call.op = "starts" /\ call.start = 0 /\ twin.start = 2
    /\ meta.pity_cnt = 2
    /\ Len(events) = 2
    /\ events[1].at = 2 /\ events[1].cnt = 2 /\ twin.events[1].cnt = 4
    /\ events[2].at = 3 /\ events[2].cnt = 1 /\ twin.events[2].cnt = 1

\* C25: the specific-attempts generator with major_pity = n >= 1 and a
\* major_pity_start in 0..n-1: maj_cnt is in 0..n-1 after every iteration,
\* so every n iterations in a row include one that yields up_list[0], and
\* at most n-1 iterations in a row pass without it
C25_Guarantee ==
    (Running /\ gen.policy = "specific"
             /\ call.major_pity_start \in 0..(meta.major_pity.val - 1))
    => LET n == meta.major_pity.val
       IN  /\ gen.maj_cnt \in 0..(n - 1)
           /\ \A a \in 1..(gen.k - n + 1) :
                 \E j \in 1..Len(events) :
                    /\ events[j].item = cur_up(gacha_system)
                    /\ events[j].at \in a..(a + n - 1)

\* major_pity = 2 with one attempt made before the run: the first and the
\* third iteration yield up_list[0], the second yields nothing
C25_Witness ==
    /\ Running /\ gen.policy = "specific" /\ meta.major_pity.val = 2
    /\ call.major_pity_start = 1 /\ call.start = 0
    /\ gen.k = 3 /\ Len(events) = 2
    /\ events[1].at = 1 /\ events[1].item = cur_up(gacha_system)
    /\ events[2].at = 3 /\ events[2].item = cur_up(gacha_system)
    /\ last.forced /\ last.sampled = "no_ssr"

(***************************************************************************)
(* Further claims about the constructor and the tables, checked under      *)
(* SpecBuild.                                                              *)
(***************************************************************************)
\* C26: for every validated configuration, one whose pity_cnt is beyond the
\* attempt at which the linear ramp reaches 1 included, every entry
\* base_prob + max(0, i - base_cnt) * prob_increase of the ramp is clamped
\* to at most 1: every p(i) is in (0,1], in the table, in meta.prob_list
\* and in cal_individual_probs, and no row has a negative idle weight
C26_Clamped ==
    Validated =>
       LET m == gacha_system.meta
           probs == cal_individual_probs(m.base_prob, m.base_cnt, m.pity_cnt,
                                         m.prob_increase)
       IN  /\ \A r \in Rows :
                /\ 0 < Ramp[r] /\ Ramp[r] <= PUnit
                /\ Idle(RegularTable[r]) >= 0
           /\ \A r \in 1..Len(m.prob_list) :
                /\ 0 < m.prob_list[r][1]
                /\ m.prob_list[r][1] <= m.prob_list[r][2]
           /\ \A r \in 1..Len(probs) : 0 < probs[r] /\ probs[r] <= PUnit

\* x is y / d rounded to the nearest integer, for d > 0
Rounded(x, y, d) == 2 * (x * d - y) <= d /\ 2 * (y - x * d) <= d

\* the split of the rare probability of every row of a table, for a share
\* up_percent of the rate-up items
SplitRows(table, up_percent) ==
    \A r \in 1..Len(table) :
       LET row == table[r]
           p == TotalRare(row)
       IN  IF NUp >= 1
           THEN /\ Rounded(OtherRare(row), p * (PUnit - up_percent), PUnit)
                /\ \A k \in 1..NUp :
                      Rounded(row[2 + k], p * up_percent, NUp * PUnit)
           ELSE /\ OtherRare(row) = p
                /\ Idle(row) + OtherRare(row) = PUnit

\* C27: the rate-up split.  With n >= 1 rate-up items each has the weight
\* p * up_percent / n and other_rare is p * (1 - up_percent), to the four
\* places kept; with an empty up_list the rate-up mass is folded into
\* other_rare, which is p, and the row sums to 1; the same in the
\* major-pity table, where up_percent is 1
C27_Split ==
    Validated =>
       /\ SplitRows(RegularTable, gacha_system.meta.up_percent)
       /\ gacha_system.prob_table.has_major => SplitRows(MajorPityTable, PUnit)

\* the configuration gives prob_increase and no pity_cnt, and violates no
\* validation rule
DerivesPity == call.op = "__init__" /\ call.args.pity_cnt = None
               /\ call.args.prob_increase # None
               /\ FirstViolated(call.args) = "ok"

\* the linear ramp of a configuration at attempt n
Linear(m, n) == m.base_prob + Max(0, n - m.base_cnt) * m.prob_increase

\* C28: with pity_cnt absent, for every configuration that passes the
\* validation, whatever its prob_increase in [0,1), the derived
\* pity_cnt = base_cnt + ceil((1 - base_prob) / prob_increase) is defined
\* and is the smallest attempt at which the linear ramp reaches 1, so
\* base_cnt <= pity_cnt
C28_DerivedPity ==
    DerivesPity =>
       /\ mode = "built"
       /\ LET m == gacha_system.meta
          IN  /\ m.base_cnt <= m.pity_cnt
              /\ Linear(m, m.pity_cnt) >= PUnit
              /\ \A n \in 1..(m.pity_cnt - 1) : Linear(m, n) < PUnit

\* estimate_prob_list has returned on the simulator, which keeps its _meta
Fit_Returned == mode = "unbuilt" /\ last # NoLast

\* what the call that returned would have returned with a budget of k epochs
FitAfter(k) ==
    estimate_prob_list(_meta, last.prob_increase_mode, last.estimate_init,
                       last.step, k)

\* the residual of a rate: round(official_prob - 1 / expectation, 4)
ResidualOf(estimate) ==
    Residual(_meta.official_prob,
             FracAdd(BaseCum(Frac(_meta.base_prob, PUnit), _meta.base_cnt).cum_exp,
                     Epoch(_meta, last.prob_increase_mode, estimate).cum_exp))

\* C29: estimate_prob_list runs at most n_epoch iterations, moves the
\* estimate by exactly one step per iteration, up for a positive residual
\* and down for a negative one, and stops at the first residual of zero; on
\* return from a call that made an iteration, converged or out of budget,
\* the rate returned is the rate the stored prob_list and the residual
\* returned were computed from
C29_Fit ==
    Fit_Returned =>
       /\ last.epochs <= last.n_epoch
       /\ \A k \in 1..last.epochs :
             LET before == FitAfter(k - 1).estimate
                 after == FitAfter(k)
             IN  /\ after.diff.value > 0 => after.estimate = FracAdd(before, last.step)
                 /\ after.diff.value < 0 => after.estimate = FracSub(before, last.step)
                 /\ after.diff.value = 0 => after.estimate = before /\ k = last.epochs
       /\ last.epochs < last.n_epoch => last.diff.known /\ last.diff.value = 0
       /\ last.epochs > 0
             => /\ _meta.prob_list
                     = Epoch(_meta, last.prob_increase_mode, last.estimate).prob_list
                /\ last.diff.known
                /\ last.diff.value = ResidualOf(last.estimate)
====
